---- MODULE Spec2Model ----
(***************************************************************************)
(* Model of the hh.ru vacancy loader: the paginated API client             *)
(* (api_client.py), the PostgreSQL store (db_manager.py) and the ingestion *)
(* loop load_data_to_db (main.py).                                         *)
(*                                                                         *)
(* A Python dict is a function whose DOMAIN is the set of keys present.    *)
(* A value that may be a dict, None or something else (an API response     *)
(* body, the 'salary' field) is tagged: [t |-> "None"], [t |-> "dict",     *)
(* d |-> f], [t |-> "str", s |-> text].  Scalar None / SQL NULL is None.   *)
(***************************************************************************)
EXTENDS Integers, Sequences, FiniteSets, TLC

-----------------------------------------------------------------------------
(* Bounds of the model *)

NumEmployers == 2      \* configured employer ids are 1..NumEmployers
MaxVacId == 1          \* vacancy ids the remote source hands out
MaxVacs == 3           \* longest vacancy list one fetch returns in the loop

(* Program constants *)

PER_PAGE == 100        \* params['per_page']
MAX_PAGES == 20        \* the pagination guard

-----------------------------------------------------------------------------
(* Values *)

None == "None"
NoneJ == [t |-> "None"]
Dict(f) == [t |-> "dict", d |-> f]
Str(s) == [t |-> "str", s |-> s]

\* Python truthiness of a tagged value: None, {} and "" are falsy
Truthy(j) ==
  CASE j.t = "None" -> FALSE
    [] j.t = "dict" -> DOMAIN j.d # {}
    [] j.t = "str" -> j.s # ""

\* the dict f without key k
Drop(f, k) == [q \in DOMAIN f \ {k} |-> f[q]]

\* dict.get(k, default)
Get(f, k, default) == IF k \in DOMAIN f THEN f[k] ELSE default

EmpIds == 1..NumEmployers
VacIds == 1..MaxVacId

\* main.EMPLOYER_IDS: a list of distinct ids
EMPLOYER_IDS == [i \in 1..NumEmployers |-> i]

-----------------------------------------------------------------------------
(* What the remote source can answer *)

BaseEmployer(i) ==
  [id |-> i, name |-> "A", alternate_url |-> "u", open_vacancies |-> 3]

\* employer bodies: a well-formed record, a renamed one without
\* open_vacancies, one with a null name, one with a required key missing
EmployerDicts ==
  UNION {{BaseEmployer(i),
          Drop([BaseEmployer(i) EXCEPT !.name = "B"], "open_vacancies"),
          [BaseEmployer(i) EXCEPT !.name = None],
          Drop(BaseEmployer(i), "alternate_url")} : i \in EmpIds}

EmptyDict == [q \in {} |-> None]

EmployerResponses ==
  {[status_code |-> 200, json |-> Dict(f)] : f \in EmployerDicts}
  \cup {[status_code |-> 200, json |-> Dict(EmptyDict)],
        [status_code |-> 404, json |-> NoneJ],
        [status_code |-> 500, json |-> NoneJ]}

BaseSalary == Dict([from |-> "100", currency |-> "RUR"])

BaseVacancy(i) ==
  [id |-> i, name |-> "T1", salary |-> BaseSalary, alternate_url |-> "v"]

\* the shapes of the optional 'salary' field: a dict without 'to', an empty
\* dict, None, a non-empty string
Salaries ==
  {BaseSalary,
   Dict(EmptyDict),
   NoneJ,
   Str("100000")}

\* vacancy records: every salary shape, the salary key absent, a null
\* title, a required key missing
VacancyDicts ==
  UNION {{[BaseVacancy(i) EXCEPT !.salary = s] : s \in Salaries}
         \cup {Drop(BaseVacancy(i), "salary"),
               [BaseVacancy(i) EXCEPT !.name = None],
               Drop(BaseVacancy(i), "name"),
               Drop(BaseVacancy(i), "id")} : i \in VacIds}

-----------------------------------------------------------------------------
(* api_client.py *)

\* HHApiClient.get_employer: the body on 200, None otherwise
get_employer(response) ==
  IF response.status_code = 200 THEN response.json ELSE NoneJ

-----------------------------------------------------------------------------
(* db_manager.py: the two tables are sets of rows *)

\* UNIQUE (employer_id), UNIQUE (vacancy_id)
UniqueKeys(emps, vacs) ==
  /\ \A r, q \in emps : r.employer_id = q.employer_id => r = q
  /\ \A r, q \in vacs : r.vacancy_id = q.vacancy_id => r = q

\* as ForeignKeyOk, for a table declared without the foreign key
ForeignKeyUnchecked(emps, employer_id) == TRUE

\* FOREIGN KEY (employer_id) REFERENCES employers (employer_id)
ForeignKeyOk(emps, employer_id) ==
  \E e \in emps : e.employer_id = employer_id

\* as UpsertEmployer, with ON CONFLICT (employer_id) DO NOTHING
UpsertEmployerKeepsOld(emps, row) ==
  IF \E r \in emps : r.employer_id = row.employer_id THEN emps
  ELSE emps \cup {row}

\* INSERT ... ON CONFLICT (employer_id) DO UPDATE SET name, url, count
UpsertEmployer(emps, row) ==
  {r \in emps : r.employer_id # row.employer_id} \cup {row}

\* as InsertVacancyIfAbsent, with ON CONFLICT (vacancy_id) DO UPDATE
InsertVacancyReplaces(vacs, row) ==
  {r \in vacs : r.vacancy_id # row.vacancy_id} \cup {row}

\* INSERT ... ON CONFLICT (vacancy_id) DO NOTHING
InsertVacancyIfAbsent(vacs, row) ==
  IF \E r \in vacs : r.vacancy_id = row.vacancy_id THEN vacs
  ELSE vacs \cup {row}

\* the parameter tuple of add_employer's INSERT
EmployerRow(f) ==
  [employer_id |-> f["id"],
   name |-> f["name"],
   url |-> f["alternate_url"],
   vacancies_count |-> Get(f, "open_vacancies", 0)]

\* DBManager.add_employer: nothing is caught, so a missing key (KeyError)
\* or a failed statement (NOT NULL on name, a database error) raises
add_employer(emps, f, dbOk) ==
  IF ~({"id", "name", "alternate_url"} \subseteq DOMAIN f)
  THEN [outcome |-> "raised", employers |-> emps]
  ELSE IF ~dbOk \/ f["name"] = None
  THEN [outcome |-> "raised", employers |-> emps]
  ELSE [outcome |-> IF \E r \in emps : r.employer_id = f["id"]
                    THEN "updated" ELSE "inserted",
        employers |-> UpsertEmployer(emps, EmployerRow(f))]

\* as RequiredFieldsPresent, checking 'id' only
RequiredIdOnly(v) == "id" \in DOMAIN v

\* the check of the required fields
RequiredFieldsPresent(v) == "id" \in DOMAIN v /\ "name" \in DOMAIN v

\* salary.get(k) if salary else None; .get on a truthy non-dict raises
SalaryRaises(v) ==
  LET salary == Get(v, "salary", NoneJ)
  IN Truthy(salary) /\ salary.t # "dict"

SalaryField(v, k) ==
  LET salary == Get(v, "salary", NoneJ)
  IN IF Truthy(salary) THEN Get(salary.d, k, None) ELSE None

\* the parameter tuple of add_vacancy's INSERT
VacancyRow(v, employer_id) ==
  [vacancy_id |-> v["id"],
   employer_id |-> employer_id,
   title |-> v["name"],
   salary_from |-> SalaryField(v, "from"),
   salary_to |-> SalaryField(v, "to"),
   currency |-> SalaryField(v, "currency"),
   url |-> Get(v, "alternate_url", "N/A")]

\* as WriteFailure, without the try/except around the INSERT
WriteFailurePropagates(vacs, v) ==
  [outcome |-> "raised", vacancies |-> vacs, log |-> {}]

\* except Exception: log the error (reading vacancy['id']) and roll back
WriteFailure(vacs, v) ==
  IF "id" \in DOMAIN v
  THEN [outcome |-> "rolled_back", vacancies |-> vacs, log |-> {"error"}]
  ELSE [outcome |-> "raised", vacancies |-> vacs, log |-> {}]

\* the try block raises: a key read for the parameters is missing
\* (KeyError), the database fails, title is NULL (NOT NULL), or the row is
\* new and its employer_id has no employers row (FOREIGN KEY)
StatementRaises(emps, vacs, v, employer_id, dbOk) ==
  \/ ~({"id", "name"} \subseteq DOMAIN v)
  \/ ~dbOk
  \/ v["name"] = None
  \/ /\ ~(\E r \in vacs : r.vacancy_id = v["id"])
     /\ ~ForeignKeyOk(emps, employer_id)

\* DBManager.add_vacancy
add_vacancy(emps, vacs, v, employer_id, dbOk) ==
  IF ~RequiredFieldsPresent(v)
  THEN [outcome |-> "skipped", vacancies |-> vacs, log |-> {"warning"}]
  ELSE IF SalaryRaises(v)
  THEN [outcome |-> "raised", vacancies |-> vacs, log |-> {}]
  ELSE IF StatementRaises(emps, vacs, v, employer_id, dbOk)
  THEN WriteFailure(vacs, v)
  ELSE [outcome |-> IF \E r \in vacs : r.vacancy_id = v["id"]
                    THEN "ignored" ELSE "inserted",
        vacancies |-> InsertVacancyIfAbsent(vacs, VacancyRow(v, employer_id)),
        log |-> {}]

\* SELECT e.name, COUNT(v.id) FROM employers e LEFT JOIN vacancies v
\*   ON e.employer_id = v.employer_id GROUP BY e.name
CompanyGroups(emps, vacs) ==
  {<<n, Cardinality({p \in emps \X vacs :
                       /\ p[1].name = n
                       /\ p[1].employer_id = p[2].employer_id})>> :
     n \in {e.name : e \in emps}}

\* ORDER BY vacancy_count DESC: any order of the groups with counts
\* non-increasing (the order among equal counts is the database's choice)
CompanyResults(emps, vacs) ==
  LET G == CompanyGroups(emps, vacs)
      n == Cardinality(G)
  IN {s \in [1..n -> G] :
        /\ \A i, j \in 1..n : i # j => s[i] # s[j]
        /\ \A i, j \in 1..n : i < j => s[i][2] >= s[j][2]}

\* as CapReached, comparing with > instead of >=
CapReachedLate(page) == page > MAX_PAGES

\* 'if params['page'] >= 20: break'
CapReached(page) == page >= MAX_PAGES

\* what one page request can answer: a status and the number of items
\* (a body without 'items' counts as no items)
PageResponses ==
  {[status_code |-> c, items |-> n] : c \in {200, 500}, n \in {0, 1, PER_PAGE}}

-----------------------------------------------------------------------------
(* State *)

VARIABLES
  employers,     \* table employers
  vacancies,     \* table vacancies
  pc,            \* position of load_data_to_db, "idle" when it is not running
  idx,           \* position of emp_id in EMPLOYER_IDS
  employer,      \* local 'employer' of load_data_to_db
  vacLeft,       \* records of 'vacancies' the inner loop has not reached yet
  listInserted,  \* history: a record of the list being written has been inserted
  latest,        \* history: per id, the record of the last add_employer
                 \* that completed
  log,           \* levels of the log lines the last operation wrote
  last,          \* history: the last operation and its outcome; the argument
                 \* and the result are kept where no other variable has them
  pg_pc,         \* position of get_vacancies_by_employer
  page,          \* params['page']
  total,         \* len(all_vacancies)
  requests,      \* history: requests.get calls of this call
  fullOnly,      \* history: every answer so far was a 200 with PER_PAGE items
  lastOk         \* history: the last answer was a 200 with items

mainvars ==
  <<employers, vacancies, pc, idx, employer, vacLeft, listInserted, latest,
    log, last>>

pgvars == <<pg_pc, page, total, requests, fullOnly, lastOk>>

vars == <<mainvars, pgvars>>

Op(kind, direct, i, arg, employer_id, outcome, failed, result) ==
  [kind |-> kind, direct |-> direct, idx |-> i, arg |-> arg,
   emp_id |-> employer_id, outcome |-> outcome, failed |-> failed,
   result |-> result]

NoOp(kind) == Op(kind, TRUE, 0, NoneJ, 0, "ok", FALSE, <<>>)

\* after DBManager.create_tables() on an empty database
InitMain ==
  /\ employers = {}
  /\ vacancies = {}
  /\ pc = "idle"
  /\ idx = 0
  /\ employer = NoneJ
  /\ vacLeft = 0
  /\ listInserted = FALSE
  /\ latest = [i \in EmpIds |-> NoneJ]
  /\ log = {}
  /\ last = NoOp("create_tables")

\* before any call of get_vacancies_by_employer
InitPages ==
  /\ pg_pc = "idle"
  /\ page = 0
  /\ total = 0
  /\ requests = 0
  /\ fullOnly = TRUE
  /\ lastOk = TRUE

Init == InitMain /\ InitPages

\* no call is in progress and the last one has been returned from
NotRunning == pc = "idle"

-----------------------------------------------------------------------------
(* main.load_data_to_db, one step per call it makes *)

\* as AfterGetEmployer, without the check of an absent employer
AfterGetEmployerNoSkip(e) == "add_employer"

\* 'if not employer: ... continue'
AfterGetEmployer(e) == IF ~Truthy(e) THEN "continue" ELSE "add_employer"

\* the next iteration of 'for emp_id in employer_ids', or the return
NextEmployer ==
  IF idx < Len(EMPLOYER_IDS)
  THEN /\ pc' = "get_employer"
       /\ idx' = idx + 1
  ELSE /\ pc' = "done"
       /\ idx' = idx

\* the record of a completed add_employer becomes the latest of its id
Latest(l, f, outcome) ==
  IF outcome = "raised" THEN l ELSE [l EXCEPT ![f["id"]] = Dict(f)]

\* the call of load_data_to_db(db_manager, api_client, EMPLOYER_IDS)
StartRun ==
  /\ NotRunning
  /\ pc' = IF Len(EMPLOYER_IDS) = 0 THEN "done" ELSE "get_employer"
  /\ idx' = IF Len(EMPLOYER_IDS) = 0 THEN 0 ELSE 1
  /\ employer' = NoneJ
  /\ vacLeft' = 0
  /\ listInserted' = FALSE
  /\ log' = {"info"}
  /\ last' = Op("start", FALSE, 0, NoneJ, 0, "ok", FALSE, <<>>)
  /\ UNCHANGED <<employers, vacancies, latest>>
  /\ UNCHANGED pgvars

\* employer = api_client.get_employer(emp_id); if not employer: continue
FetchEmployer ==
  /\ pc = "get_employer"
  /\ \E response \in EmployerResponses :
       LET e == get_employer(response)
           after == AfterGetEmployer(e)
       IN /\ employer' = e
          /\ IF after = "continue"
             THEN /\ log' = {"warning"}
                  /\ NextEmployer
             ELSE /\ log' = {}
                  /\ pc' = after
                  /\ idx' = idx
          /\ last' = Op("get_employer", FALSE, idx, NoneJ, EMPLOYER_IDS[idx],
                        IF Truthy(e) THEN "found" ELSE "absent", FALSE, <<>>)
  /\ vacLeft' = 0
  /\ listInserted' = FALSE
  /\ UNCHANGED <<employers, vacancies, latest>>
  /\ UNCHANGED pgvars

\* db_manager.add_employer(employer); logger.info(employer['name'])
AddEmployer ==
  /\ pc = "add_employer"
  /\ \E dbOk \in BOOLEAN :
       LET r == IF employer.t = "dict"
                THEN add_employer(employers, employer.d, dbOk)
                ELSE [outcome |-> "raised", employers |-> employers]
       IN /\ employers' = r.employers
          /\ latest' = IF employer.t = "dict"
                       THEN Latest(latest, employer.d, r.outcome)
                       ELSE latest
          /\ pc' = IF r.outcome = "raised" THEN "aborted" ELSE "get_vacancies"
          /\ log' = IF r.outcome = "raised" THEN {} ELSE {"info"}
          /\ last' = Op("add_employer", FALSE, idx, employer,
                        EMPLOYER_IDS[idx], r.outcome, r.outcome = "raised",
                        <<>>)
  /\ UNCHANGED <<vacancies, idx, employer, vacLeft, listInserted>>
  /\ UNCHANGED pgvars

\* vacancies = api_client.get_vacancies_by_employer(emp_id): a list of any
\* length up to MaxVacs; its records are drawn when the loop reaches them
FetchVacancies ==
  /\ pc = "get_vacancies"
  /\ \E n \in 0..MaxVacs :
       /\ vacLeft' = n
       /\ IF n = 0
          THEN /\ log' = {"info"}
               /\ NextEmployer
          ELSE /\ log' = {}
               /\ pc' = "add_vacancy"
               /\ idx' = idx
       /\ last' = Op("get_vacancies", FALSE, idx, NoneJ, EMPLOYER_IDS[idx],
                     IF n = 0 THEN "empty" ELSE "items", FALSE, <<>>)
  /\ listInserted' = FALSE
  /\ UNCHANGED <<employers, vacancies, employer, latest>>
  /\ UNCHANGED pgvars

\* the INSERT of add_vacancy was reached and raised
InsertFailed(emps, vacs, v, employer_id, dbOk) ==
  /\ "id" \in DOMAIN v
  /\ "name" \in DOMAIN v
  /\ ~SalaryRaises(v)
  /\ StatementRaises(emps, vacs, v, employer_id, dbOk)

\* one iteration of 'for vacancy in vacancies: add_vacancy(vacancy, emp_id)'
AddVacancy ==
  /\ pc = "add_vacancy"
  /\ \E v \in VacancyDicts, dbOk \in BOOLEAN :
       LET r == add_vacancy(employers, vacancies, v, EMPLOYER_IDS[idx], dbOk)
       IN /\ vacancies' = r.vacancies
          /\ listInserted' = /\ r.outcome # "raised"
                              /\ vacLeft > 1
                              /\ (listInserted \/ r.outcome = "inserted")
          /\ last' = Op("add_vacancy", FALSE, idx, NoneJ, EMPLOYER_IDS[idx],
                        r.outcome,
                        InsertFailed(employers, vacancies, v,
                                     EMPLOYER_IDS[idx], dbOk),
                        <<>>)
          /\ IF r.outcome = "raised"
             THEN /\ pc' = "aborted"
                  /\ log' = r.log
                  /\ UNCHANGED <<idx, vacLeft>>
             ELSE /\ vacLeft' = vacLeft - 1
                  /\ IF vacLeft = 1
                     THEN /\ log' = r.log \cup {"info"}
                          /\ NextEmployer
                     ELSE /\ log' = r.log
                          /\ pc' = "add_vacancy"
                          /\ idx' = idx
  /\ UNCHANGED <<employers, employer, latest>>
  /\ UNCHANGED pgvars

-----------------------------------------------------------------------------
(* The store's operations called on their own, between runs *)

\* the call is over: its frame is kept until the caller goes on
Returned ==
  /\ pc' = "returned"
  /\ idx' = 0
  /\ employer' = NoneJ
  /\ vacLeft' = 0
  /\ listInserted' = FALSE

CallAddEmployer ==
  /\ NotRunning
  /\ \E f \in EmployerDicts, dbOk \in BOOLEAN :
       LET r == add_employer(employers, f, dbOk)
       IN /\ employers' = r.employers
          /\ latest' = Latest(latest, f, r.outcome)
          /\ last' = Op("add_employer", TRUE, 0, Dict(f), 0, r.outcome,
                        r.outcome = "raised", <<>>)
  /\ log' = {}
  /\ Returned
  /\ UNCHANGED vacancies
  /\ UNCHANGED pgvars

CallAddVacancy ==
  /\ NotRunning
  /\ \E v \in VacancyDicts, employer_id \in EmpIds, dbOk \in BOOLEAN :
       LET r == add_vacancy(employers, vacancies, v, employer_id, dbOk)
       IN /\ vacancies' = r.vacancies
          /\ log' = r.log
          /\ last' = Op("add_vacancy", TRUE, 0, Dict(v), employer_id,
                        r.outcome,
                        InsertFailed(employers, vacancies, v, employer_id,
                                     dbOk),
                        <<>>)
  /\ Returned
  /\ UNCHANGED <<employers, latest>>
  /\ UNCHANGED pgvars

CallGetCompanies ==
  /\ NotRunning
  /\ \E s \in CompanyResults(employers, vacancies) :
       last' = Op("get_companies", TRUE, 0, NoneJ, 0, "ok", FALSE, s)
  /\ log' = {}
  /\ Returned
  /\ UNCHANGED <<employers, vacancies, latest>>
  /\ UNCHANGED pgvars

\* the caller goes on after a call or a run that returned or raised
Return ==
  /\ pc \in {"returned", "done", "aborted"}
  /\ pc' = "idle"
  /\ idx' = 0
  /\ employer' = NoneJ
  /\ vacLeft' = 0
  /\ listInserted' = FALSE
  /\ log' = {}
  /\ last' = NoOp("return")
  /\ UNCHANGED <<employers, vacancies, latest>>
  /\ UNCHANGED pgvars

Next ==
  \/ StartRun
  \/ FetchEmployer
  \/ AddEmployer
  \/ FetchVacancies
  \/ AddVacancy
  \/ CallAddEmployer
  \/ CallAddVacancy
  \/ CallGetCompanies
  \/ Return

Spec == Init /\ [][Next]_vars

-----------------------------------------------------------------------------
(* HHApiClient.get_vacancies_by_employer, one step per page request *)

\* the call: params['page'] = 0, all_vacancies = []
CallGetVacancies ==
  /\ pg_pc \in {"idle", "returned"}
  /\ pg_pc' = "loop"
  /\ page' = 0
  /\ total' = 0
  /\ requests' = 0
  /\ fullOnly' = TRUE
  /\ lastOk' = TRUE
  /\ UNCHANGED mainvars

\* one iteration of 'while True'
GetPage ==
  /\ pg_pc = "loop"
  /\ \E response \in PageResponses :
       LET ok == response.status_code = 200 /\ response.items # 0
       IN /\ requests' = requests + 1
          /\ lastOk' = ok
          /\ fullOnly' = (fullOnly /\ response.status_code = 200
                                   /\ response.items = PER_PAGE)
          /\ IF response.status_code # 200
             THEN /\ pg_pc' = "returned"
                  /\ UNCHANGED <<page, total>>
             ELSE IF response.items = 0
             THEN /\ pg_pc' = "returned"
                  /\ UNCHANGED <<page, total>>
             ELSE /\ total' = total + response.items
                  /\ page' = page + 1
                  /\ pg_pc' = IF CapReached(page + 1) THEN "returned"
                              ELSE "loop"
  /\ UNCHANGED mainvars

NextPages ==
  \/ CallGetVacancies
  \/ GetPage

\* every request is answered, so the loop's next iteration is taken
SpecPages == Init /\ [][NextPages]_vars /\ WF_vars(GetPage)

-----------------------------------------------------------------------------
(* Properties *)

\* C1 as stated: when a run of load_data_to_db is over, the employers table
\* holds exactly one row for the configured id whose fetch returned an
\* employer last, and the row's name, URL and vacancy count are those of
\* that fetch
C1_RowEqualsLatestFetch ==
  (pc \in {"done", "aborted"} /\ Truthy(employer)) =>
    {r \in employers : r.employer_id = EMPLOYER_IDS[idx]}
      = {[employer_id |-> EMPLOYER_IDS[idx],
          name |-> Get(employer.d, "name", None),
          url |-> Get(employer.d, "alternate_url", None),
          vacancies_count |-> Get(employer.d, "open_vacancies", 0)]}

\* C1 amended: the employers table holds at most one row per external id;
\* an id has a row exactly when an add_employer for a record carrying that
\* id has completed, and the row's name, URL and vacancy count (0 when the
\* record has no open_vacancies) are those of the last such record
C1_RowEqualsLatestUpsert ==
  \A i \in EmpIds :
    {r \in employers : r.employer_id = i}
      = IF latest[i] = NoneJ THEN {}
        ELSE {[employer_id |-> i,
               name |-> latest[i].d["name"],
               url |-> latest[i].d["alternate_url"],
               vacancies_count |->
                 IF "open_vacancies" \in DOMAIN latest[i].d
                 THEN latest[i].d["open_vacancies"] ELSE 0]}

\* C1 witness: a run has fetched an employer that was stored before and
\* its upsert has overwritten the row with the renamed record
C1_Witness ==
  /\ last.kind = "add_employer"
  /\ ~last.direct
  /\ last.outcome = "updated"
  /\ \E r \in employers :
       /\ r.employer_id = employer.d["id"]
       /\ r.name = "B"
       /\ r.vacancies_count = 0

\* C2: a stored vacancy row is never changed or removed by a later
\* operation, and no second row with its vacancy id appears
C2_StoredVacancyNeverChanges ==
  [][/\ \A r \in vacancies : r \in vacancies'
     /\ \A r, q \in vacancies' : r.vacancy_id = q.vacancy_id => r = q]_vars

\* add_vacancy was called with the id of a stored vacancy and other fields
C2_Witness ==
  /\ last.kind = "add_vacancy"
  /\ last.direct
  /\ last.outcome = "ignored"
  /\ \E r \in vacancies :
       /\ r.vacancy_id = last.arg.d["id"]
       /\ r.employer_id # last.emp_id
       /\ r.salary_from # SalaryField(last.arg.d, "from")

\* C3 as stated: no failure halts a run; load_data_to_db is never left by
\* an exception, and it returns only after the last configured id
C3_NoFailureHaltsRun ==
  /\ pc # "aborted"
  /\ pc = "done" => idx = Len(EMPLOYER_IDS)

\* C4: every stored vacancy's employer_id is the employer_id of a row of
\* employers, and an add_vacancy whose employer_id has no such row stores
\* nothing
C4_ReferentialIntegrity ==
  /\ [](\A v \in vacancies : \E e \in employers :
          e.employer_id = v.employer_id)
  /\ [][(/\ last'.kind = "add_vacancy"
         /\ \A e \in employers : e.employer_id # last'.emp_id)
          => vacancies' = vacancies]_vars

\* a run stored the fetched employer under another id than the configured
\* one, and the insert of a vacancy under the configured id was refused
C4_Witness ==
  /\ last.kind = "add_vacancy"
  /\ ~last.direct
  /\ last.failed
  /\ last.outcome = "rolled_back"
  /\ employer.d["id"] # last.emp_id
  /\ \A e \in employers : e.employer_id # last.emp_id
  /\ vacancies = {}

\* C5: get_vacancies_by_employer issues at most MAX_PAGES requests, goes on
\* only after a 200 answer with items, returns on the first other answer or
\* at the cap, returns MAX_PAGES * PER_PAGE records after MAX_PAGES requests
\* when every answer is a full page, and always returns
C5_PaginationStops ==
  /\ [](/\ requests <= MAX_PAGES
        /\ pg_pc = "loop" => lastOk
        /\ pg_pc = "returned" => (~lastOk \/ requests = MAX_PAGES)
        /\ (pg_pc = "returned" /\ fullOnly) =>
             (requests = MAX_PAGES /\ total = MAX_PAGES * PER_PAGE))
  /\ (pg_pc = "loop") ~> (pg_pc = "returned")

\* the source answered every request with a full page and the call returned
C5_Witness ==
  /\ pg_pc = "returned"
  /\ fullOnly
  /\ requests = 20
  /\ total = 2000

\* C6: add_vacancy with a record that lacks 'id' or 'name' changes neither
\* table, writes a warning and raises nothing
C6_MissingRequiredIsNoOp ==
  [][(/\ last'.kind = "add_vacancy"
      /\ last'.direct
      /\ ~({"id", "name"} \subseteq DOMAIN last'.arg.d))
       => /\ vacancies' = vacancies
          /\ employers' = employers
          /\ "warning" \in log'
          /\ last'.outcome # "raised"]_vars

\* add_vacancy was called on a non-empty store with a record without 'name'
C6_Witness ==
  /\ last.kind = "add_vacancy"
  /\ last.direct
  /\ "id" \in DOMAIN last.arg.d
  /\ "name" \notin DOMAIN last.arg.d
  /\ last.outcome = "skipped"
  /\ vacancies # {}

\* C7 as stated: the result of get_companies_and_vacancies_count has, for
\* every stored employer, an entry with its name and the number of stored
\* vacancies of that employer, and the counts do not increase
C7_EveryEmployerCounted ==
  last.kind = "get_companies" =>
    /\ \A e \in employers : \E i \in DOMAIN last.result :
         last.result[i] =
           <<e.name,
             Cardinality({v \in vacancies : v.employer_id = e.employer_id})>>
    /\ \A i, j \in DOMAIN last.result :
         i < j => last.result[i][2] >= last.result[j][2]

\* C8 as stated: for a record with 'id' and 'name', no shape of the salary
\* data makes add_vacancy raise, and a vacancy that is inserted has null in
\* every salary column the record gives no value for
C8_SalaryNeverAborts ==
  (/\ last.kind = "add_vacancy"
   /\ last.direct
   /\ {"id", "name"} \subseteq DOMAIN last.arg.d)
    => /\ last.outcome # "raised"
       /\ last.outcome = "inserted" =>
            \E r \in vacancies :
              /\ r.vacancy_id = last.arg.d["id"]
              /\ LET salary == Get(last.arg.d, "salary", NoneJ)
                     absent(k) == salary.t # "dict" \/ k \notin DOMAIN salary.d
                 IN /\ absent("from") => r.salary_from = None
                    /\ absent("to") => r.salary_to = None
                    /\ absent("currency") => r.currency = None

\* C9: the operations of a run follow the list order: get_employer for the
\* first id comes first; add_employer follows a get_employer of the same id
\* that found an employer; get_vacancies follows the add_employer of the same
\* id; an add_vacancy follows get_vacancies or an add_vacancy of the same id;
\* get_employer for the next id comes only after an absent fetch, an empty
\* vacancy list or the last record of the list of the id before
C9_SequentialOrder ==
  [][/\ last'.kind = "get_employer" =>
          /\ last'.emp_id = EMPLOYER_IDS[last'.idx]
          /\ \/ last.kind = "start" /\ last'.idx = 1
             \/ /\ last'.idx = last.idx + 1
                /\ ~last.direct
                /\ \/ last.kind = "get_employer" /\ last.outcome = "absent"
                   \/ last.kind = "get_vacancies" /\ last.outcome = "empty"
                   \/ /\ last.kind = "add_vacancy"
                      /\ last.outcome # "raised"
                      /\ vacLeft = 0
     /\ (last'.kind = "add_employer" /\ ~last'.direct) =>
          /\ last.kind = "get_employer"
          /\ last.outcome = "found"
          /\ last'.idx = last.idx
          /\ last'.arg = employer
     /\ last'.kind = "get_vacancies" =>
          /\ last.kind = "add_employer"
          /\ ~last.direct
          /\ last.outcome # "raised"
          /\ last'.idx = last.idx
     /\ (last'.kind = "add_vacancy" /\ ~last'.direct) =>
          /\ ~last.direct
          /\ last.kind \in {"get_vacancies", "add_vacancy"}
          /\ last.outcome # "raised"
          /\ vacLeft > 0
          /\ last'.idx = last.idx
          /\ last'.emp_id = EMPLOYER_IDS[last.idx]]_vars

\* the fetch of the first id was absent and the run is at the second id
C9_Witness ==
  /\ last.kind = "get_employer"
  /\ last.outcome = "absent"
  /\ last.idx = 1
  /\ pc = "get_employer"
  /\ idx = 2

====
